---------------------------- MODULE Spec2Model ----------------------------
(***************************************************************************)
(* Model of the NIFTY option-chain poller (src/2.py) and of the column     *)
(* selection of its offline difference chart (src/3.py).                   *)
(*                                                                         *)
(* Python values are modelled as follows.                                  *)
(*   None            the empty tuple <<>>                                  *)
(*   a float         an exact rational <<n, d>>, d > 0, in lowest terms    *)
(*                   (prices, open interest and sums stay integers)        *)
(*   Optional[int]   <<>> or the 1-tuple <<k>>                             *)
(*   a JSON object   a record whose DOMAIN is the set of keys present      *)
(*   a dict          the sequence of its items [key, value], in insertion  *)
(*                   order                                                 *)
(*   'pcr7', 's1'    the triple <<"col", "pcr", 7>>, <<"col", "s", 1>>     *)
(***************************************************************************)
EXTENDS Integers, Sequences, FiniteSets

VARIABLES
    pc,                 \* position of main() (src/2.py:156-227)
    exception,          \* the uncaught exception that ended main(), or None
    nifty_data,         \* main: last result of fetch_nifty_data()
    option_chain_data,  \* main: last result of fetch_option_chain_data()
    current_price,      \* main: float(lastPrice) of the last index snapshot
    expiry_dates,       \* main: expiries of the chain fetched at startup
    expiry_date_input,  \* main: what the user typed at the prompt
    ist_price,          \* main: price of the startup snapshot
    old_vwap,           \* main: calculate_vwap of the startup snapshot
    prev_pcr_values,    \* main: ratios of the preceding completed iteration
    filtered_data,      \* main: result of filter_strike_prices
    pcr_values,         \* main: first result of calculate_pcr
    difference_values,  \* main: second result of calculate_pcr
    levels,             \* main: (s1, s2, s3, r1, r2, r3)
    vwap_value,         \* main: the VWAP cell of this iteration's row
    csv_file,           \* the rows of the file at output_file_path
    printed,            \* per-band deltas of the last print_latest_data call
    response,           \* what the upstream endpoint answered to the last request
    clock,              \* seconds slept so far (datetime.now, time.sleep)
    iteration,          \* passes of the while loop begun so far
    rows_appended,      \* history: the rows of the append_to_csv calls that succeeded
    ratio_history       \* history: pcr_values of each iteration that reached line 225

vars == <<pc, exception, nifty_data, option_chain_data, current_price,
          expiry_dates, expiry_date_input, ist_price, old_vwap,
          prev_pcr_values, filtered_data, pcr_values, difference_values,
          levels, vwap_value, csv_file, printed, response, clock, iteration,
          rows_appended, ratio_history>>

-----------------------------------------------------------------------------
(* Bounds of the model *)

\* longest option chain the calculations are explored on
MaxChain == 4

\* passes of the poll loop explored
MaxIter == 3

(* Constants of the program *)

\* strike step of the band window (src/2.py:65)
StrikeStep == 50

\* number of band widths in strike_ranges (src/2.py:182)
NumBands == 30

\* first column of the chart's selection, columns[31:-6] (src/3.py:20)
SliceStart == 31

\* columns dropped from the end by columns[31:-6] (src/3.py:20)
SliceDropLast == 6

\* time.sleep(30) (src/2.py:193, 200, 227)
SleepSeconds == 30

None == <<>>

Some(v) == <<v>>

\* a key or column name made of a word and a number: 'pcr7' is Col("pcr", 7),
\* and 'Price' is Col("Price", 0)
Col(name, n) == <<"col", name, n>>

-----------------------------------------------------------------------------
(* Exact rationals for Python floats *)

Abs(n) == IF n < 0 THEN -n ELSE n

RECURSIVE Gcd(_, _)
Gcd(a, b) == IF b = 0 THEN a ELSE Gcd(b, a % b)

\* the rational n/d (d # 0) in lowest terms with a positive denominator
Frac(n, d) ==
    LET g == Gcd(Abs(n), Abs(d))
        s == IF d < 0 THEN -1 ELSE 1
    IN  <<(s * n) \div g, (s * d) \div g>>

FracOfInt(n) == <<n, 1>>

FracSub(a, b) == Frac(a[1] * b[2] - b[1] * a[2], a[2] * b[2])

FracAdd(a, b) == Frac(a[1] * b[2] + b[1] * a[2], a[2] * b[2])

ZeroDivisionError == <<"ZeroDivisionError">>

\* Python's a / b on floats
TrueDiv(a, b) == IF b = 0 THEN ZeroDivisionError ELSE Frac(a, b)

-----------------------------------------------------------------------------
(* Sequence helpers standing for Python's comprehensions *)

Range(s) == {s[i] : i \in DOMAIN s}

\* [d[side] for d in data if side in d]
RECURSIVE SideRecords(_, _)
SideRecords(data, side) ==
    IF data = <<>> THEN <<>>
    ELSE LET d == Head(data)
             rest == SideRecords(Tail(data), side)
         IN  IF side \in DOMAIN d THEN <<d[side]>> \o rest ELSE rest

\* sum(float(d["changeinOpenInterest"]) for d in records)
RECURSIVE SumChange(_)
SumChange(records) ==
    IF records = <<>> THEN 0
    ELSE Head(records).changeinOpenInterest + SumChange(Tail(records))

-----------------------------------------------------------------------------
(* filter_strike_prices, src/2.py:60-67 *)

\* line 65 with a strict lower bound
InBandStrictLow(price, current, x) ==
    current - x * StrikeStep < price /\ price <= current + x * StrikeStep

\* the condition of line 65
InBand(price, current, x) ==
    current - x * StrikeStep <= price /\ price <= current + x * StrikeStep

filter_strike_prices(chain, current, strike_range, expiry_date) ==
    LET strike_prices == {chain[i].strikePrice : i \in DOMAIN chain}
        filtered_strikes(x) == {price \in strike_prices : InBand(price, current, x)}
    IN  [j \in DOMAIN strike_range |->
            [key   |-> strike_range[j],
             value |-> SelectSeq(chain,
                          LAMBDA data : /\ data.strikePrice \in filtered_strikes(strike_range[j])
                                        /\ data.expiryDate = expiry_date)]]

-----------------------------------------------------------------------------
(* calculate_pcr, src/2.py:69-87 *)

\* line 81 with the guard on the put total
PcrGuardOnPut(total_pe_open_interest, total_ce_open_interest) ==
    IF total_pe_open_interest # 0
    THEN TrueDiv(total_pe_open_interest, total_ce_open_interest)
    ELSE FracOfInt(0)

\* line 81: pcr = pe / ce if ce != 0 else 0
PcrOf(total_pe_open_interest, total_ce_open_interest) ==
    IF total_ce_open_interest # 0
    THEN TrueDiv(total_pe_open_interest, total_ce_open_interest)
    ELSE FracOfInt(0)

\* the two dicts of lines 84-85; a ZeroDivisionError value in pcr_values
\* stands for the exception leaving the function
calculate_pcr(filtered) ==
    LET total_pe_open_interest(data) == SumChange(SideRecords(data, "PE"))
        total_ce_open_interest(data) == SumChange(SideRecords(data, "CE"))
    IN  [pcr_values |->
            [j \in DOMAIN filtered |->
                [key   |-> Col("pcr", filtered[j].key),
                 value |-> PcrOf(total_pe_open_interest(filtered[j].value),
                                 total_ce_open_interest(filtered[j].value))]],
         difference_values |->
            [j \in DOMAIN filtered |->
                [key   |-> Col("difference", filtered[j].key),
                 value |-> total_pe_open_interest(filtered[j].value)
                           - total_ce_open_interest(filtered[j].value)]]]

-----------------------------------------------------------------------------
(* calculate_support_resistance, src/2.py:89-105 *)

\* place r after the records whose open interest is at least its own
RECURSIVE InsertDesc(_, _)
InsertDesc(sorted, r) ==
    IF sorted = <<>> THEN <<r>>
    ELSE IF Head(sorted).openInterest >= r.openInterest
         THEN <<Head(sorted)>> \o InsertDesc(Tail(sorted), r)
         ELSE <<r>> \o sorted

\* place r after the records whose open interest is at most its own
RECURSIVE InsertAsc(_, _)
InsertAsc(sorted, r) ==
    IF sorted = <<>> THEN <<r>>
    ELSE IF Head(sorted).openInterest <= r.openInterest
         THEN <<Head(sorted)>> \o InsertAsc(Tail(sorted), r)
         ELSE <<r>> \o sorted

\* lines 94-95 without reverse=True
RECURSIVE SortAscending(_)
SortAscending(records) ==
    IF records = <<>> THEN <<>>
    ELSE InsertAsc(SortAscending(SubSeq(records, 1, Len(records) - 1)),
                   records[Len(records)])

\* list.sort(key=openInterest, reverse=True): descending and stable
RECURSIVE SortByOpenInterest(_)
SortByOpenInterest(records) ==
    IF records = <<>> THEN <<>>
    ELSE InsertDesc(SortByOpenInterest(SubSeq(records, 1, Len(records) - 1)),
                    records[Len(records)])

\* lines 97-103: data[k]['strikePrice'] if len(data) > k else None
StrikeAt(data, k) == IF Len(data) >= k THEN Some(data[k].strikePrice) ELSE None

calculate_support_resistance(chain) ==
    LET put_data  == SortByOpenInterest(SideRecords(chain, "PE"))
        call_data == SortByOpenInterest(SideRecords(chain, "CE"))
    IN  [s1 |-> StrikeAt(put_data, 1),  s2 |-> StrikeAt(put_data, 2),
         s3 |-> StrikeAt(put_data, 3),  r1 |-> StrikeAt(call_data, 1),
         r2 |-> StrikeAt(call_data, 2), r3 |-> StrikeAt(call_data, 3)]

-----------------------------------------------------------------------------
(* calculate_vwap, src/2.py:107-121 *)

calculate_vwap(nifty) ==
    IF nifty = None \/ "data" \notin DOMAIN nifty THEN None
    ELSE IF Len(nifty.data) = 0 THEN None
    ELSE LET data == nifty.data[1]
         IN  IF \/ "lastPrice" \notin DOMAIN data
                \/ "totalTradedVolume" \notin DOMAIN data
                \/ "totalTradedValue" \notin DOMAIN data
             THEN None
             ELSE IF data.totalTradedVolume # 0
                  THEN TrueDiv(data.totalTradedValue, data.totalTradedVolume)
                  ELSE None

-----------------------------------------------------------------------------
(* append_to_csv, src/2.py:123-135, and print_latest_data, src/2.py:137-154 *)

\* list(d.keys())
Keys(d) == [j \in DOMAIN d |-> d[j].key]

\* list(d.values())
Values(d) == [j \in DOMAIN d |-> d[j].value]

\* file.tell() of a file opened in append mode: zero exactly for an empty file
Tell(file) == Len(file)

\* the fixed tail of line 129
LevelColumns ==
    <<Col("s", 1), Col("s", 2), Col("s", 3), Col("r", 1), Col("r", 2), Col("r", 3),
      Col("Price", 0), Col("VWAP", 0)>>

\* line 129
HeaderRow(pcr, difference) ==
    <<Col("Timestamp", 0)>> \o Keys(pcr) \o Keys(difference) \o LevelColumns

\* line 131
DataRow(pcr, difference, timestamp, lv, price, vwap) ==
    <<Some(timestamp)>>
    \o Values(pcr)
    \o [j \in DOMAIN difference |-> Some(difference[j].value)]
    \o <<lv.s1, lv.s2, lv.s3, lv.r1, lv.r2, lv.r3, Some(price), vwap>>

\* lines 126-132 with the header written on every call
AppendHeaderAlways(file, pcr, difference, timestamp, lv, price, vwap) ==
    file \o <<HeaderRow(pcr, difference),
              DataRow(pcr, difference, timestamp, lv, price, vwap)>>

\* lines 126-132 when no IOError is raised: the file after the call
append_to_csv(file, pcr, difference, timestamp, lv, price, vwap) ==
    (IF Tell(file) = 0 THEN file \o <<HeaderRow(pcr, difference)>> ELSE file)
    \o <<DataRow(pcr, difference, timestamp, lv, price, vwap)>>

\* `key in prev_pcr_values` and prev_pcr_values[key]
HasKey(d, key) == \E j \in DOMAIN d : d[j].key = key

Lookup(d, key) == d[CHOOSE j \in DOMAIN d : d[j].key = key].value

\* line 148 with the operands swapped
ChangeSwapped(value, prev, key) ==
    IF prev # None /\ HasKey(prev, key)
    THEN FracSub(Lookup(prev, key), value)
    ELSE None

\* lines 147-151: the change printed after a ratio, None when nothing is printed
Change(value, prev, key) ==
    IF prev # None /\ HasKey(prev, key)
    THEN FracSub(value, Lookup(prev, key))
    ELSE None

\* lines 145-151: what is printed for each band
print_latest_data(pcr, prev) ==
    [j \in DOMAIN pcr |->
        [key |-> pcr[j].key, value |-> pcr[j].value,
         change |-> Change(pcr[j].value, prev, pcr[j].key)]]

-----------------------------------------------------------------------------
(* The column selection of the difference chart, src/3.py:20 *)

\* columns[start:-drop] of pandas (Python slicing, start counted from 0)
difference_columns(columns) ==
    SubSeq(columns, SliceStart + 1, Len(columns) - SliceDropLast)

-----------------------------------------------------------------------------
(* What the two upstream endpoints may answer *)

\* a CE or PE record of an option-chain entry
Side(strike, oi, change) ==
    [strikePrice |-> strike, openInterest |-> oi, changeinOpenInterest |-> change]

\* option-chain entries: strikes on and off the band edges, two expiries,
\* either side present or absent, equal open interests, changes that cancel
EntryPool ==
    { [strikePrice |-> 950,  expiryDate |-> "E1",
       PE |-> Side(950, 10, 5),  CE |-> Side(950, 20, 2)],
      [strikePrice |-> 1000, expiryDate |-> "E1", CE |-> Side(1000, 5, -2)],
      [strikePrice |-> 1100, expiryDate |-> "E1", PE |-> Side(1100, 10, -5)],
      [strikePrice |-> 2550, expiryDate |-> "E1",
       PE |-> Side(2550, 30, 3), CE |-> Side(2550, 1, 4)],
      [strikePrice |-> 1000, expiryDate |-> "E2",
       PE |-> Side(1000, 40, 1), CE |-> Side(1000, 40, 1)] }

\* every chain of at most MaxChain entries of the pool
Chains == UNION {[1..n -> EntryPool] : n \in 0..MaxChain}

Prices == {1000, 1050}

Expiries == {"E1", "E2"}

\* what the user may type at the prompt
ExpiryInputs == {"E1", "E2", "E9"}

\* one element of the 'data' list of the index endpoint
Snapshot(price, volume, value) ==
    [lastPrice |-> price, totalTradedVolume |-> volume, totalTradedValue |-> value]

\* the index endpoint: a request error, or a JSON document (a body that is
\* not JSON is left out: what response.json() raises for it depends on the
\* version of the requests library)
NiftyResponses ==
    { [error |-> "RequestException"],
      [json |-> [name |-> "NIFTY 50"]],
      [json |-> [name |-> "NIFTY 50", data |-> <<>>]],
      [json |-> [name |-> "NIFTY 50", data |-> <<[symbol |-> "NIFTY 50"]>>]],
      [json |-> [name |-> "NIFTY 50", data |-> <<[lastPrice |-> 1000]>>]],
      [json |-> [name |-> "NIFTY 50", data |-> <<Snapshot(1000, 0, 0)>>]],
      [json |-> [name |-> "NIFTY 50", data |-> <<Snapshot(1000, 4, 4010)>>]],
      [json |-> [name |-> "NIFTY 50", data |-> <<Snapshot(1050, 5, 5200)>>]] }

\* the chains the option-chain endpoint serves to the poll loop: an empty
\* collection, or the entries of the pool
ServedChains ==
    { <<>>,
      <<[strikePrice |-> 1000, expiryDate |-> "E1", CE |-> Side(1000, 5, -2)],
        [strikePrice |-> 950,  expiryDate |-> "E1",
         PE |-> Side(950, 10, 5),  CE |-> Side(950, 20, 2)],
        [strikePrice |-> 2550, expiryDate |-> "E1",
         PE |-> Side(2550, 30, 3), CE |-> Side(2550, 1, 4)],
        [strikePrice |-> 1000, expiryDate |-> "E2",
         PE |-> Side(1000, 40, 1), CE |-> Side(1000, 40, 1)],
        [strikePrice |-> 1100, expiryDate |-> "E1", PE |-> Side(1100, 10, -5)]>> }

\* the option-chain endpoint: an error of the request or of the JSON decoding,
\* or a JSON document
ChainResponses ==
    { [error |-> "HTTPError"], [error |-> "RequestException"], [error |-> "ValueError"],
      [json |-> [name |-> "NIFTY"]],
      [json |-> [name |-> "NIFTY", records |-> [timestamp |-> 0]]] }
    \cup { [json |-> [name |-> "NIFTY", records |-> [timestamp |-> 0, data |-> c]]] :
           c \in ServedChains }

-----------------------------------------------------------------------------
(* fetch_nifty_data, src/2.py:7-27, and fetch_option_chain_data, src/2.py:29-58 *)

NoException == "none"

\* lines 20-27: the decoded document, or None on a RequestException
fetch_nifty_data(resp) ==
    IF "error" \in DOMAIN resp THEN None ELSE resp.json

\* lines 42-58: the value returned, or the exception that leaves the function
fetch_option_chain_data(resp) ==
    IF "error" \in DOMAIN resp
    THEN [value |-> None, raised |-> NoException]
    ELSE IF "records" \notin DOMAIN resp.json
    THEN [value |-> None, raised |-> "KeyError"]
    ELSE IF "data" \notin DOMAIN resp.json.records
    THEN [value |-> None, raised |-> "KeyError"]
    ELSE [value |-> resp.json.records.data, raised |-> NoException]

\* the test of lines 159 and 191
NoNiftyData(nifty) ==
    nifty = None \/ "data" \notin DOMAIN nifty \/ Len(nifty.data) = 0

-----------------------------------------------------------------------------
(* main, src/2.py:156-227 *)

\* line 182
strike_ranges == [x \in 1..NumBands |-> x]

NoLevels == [s1 |-> None, s2 |-> None, s3 |-> None,
             r1 |-> None, r2 |-> None, r3 |-> None]

\* the cell written for an absent VWAP (line 213)
NotAvailable == <<"N/A">>

\* the locals of main that are not yet bound
Unbound ==
    /\ exception = NoException
    /\ nifty_data = None
    /\ expiry_dates = {}
    /\ ist_price = 0
    /\ old_vwap = None
    /\ prev_pcr_values = None
    /\ filtered_data = <<>>
    /\ pcr_values = <<>>
    /\ difference_values = <<>>
    /\ levels = NoLevels
    /\ vwap_value = None
    /\ csv_file = <<>>
    /\ printed = <<>>
    /\ response = [error |-> "none"]
    /\ clock = 0
    /\ iteration = 0
    /\ rows_appended = <<>>
    /\ ratio_history = <<>>

\* the program is started; the file named after today's date and the expiry
\* does not exist yet
Init ==
    /\ pc = "start"
    /\ option_chain_data = None
    /\ current_price = 0
    /\ expiry_date_input = ""
    /\ Unbound

\* main ends by an uncaught exception
Raise(e) == pc' = "crashed" /\ exception' = e

\* lines 158-164: the first index snapshot
StartFetchNifty ==
    /\ pc = "start"
    /\ \E resp \in NiftyResponses :
        /\ response' = resp
        /\ nifty_data' = fetch_nifty_data(resp)
    /\ IF NoNiftyData(nifty_data')
       THEN pc' = "exited" /\ UNCHANGED <<exception, current_price>>
       ELSE IF "lastPrice" \notin DOMAIN nifty_data'.data[1]
       THEN Raise("KeyError") /\ UNCHANGED current_price
       ELSE /\ current_price' = nifty_data'.data[1].lastPrice
            /\ pc' = "start_chain"
            /\ UNCHANGED exception
    /\ UNCHANGED <<option_chain_data, expiry_dates, expiry_date_input, ist_price,
                   old_vwap, prev_pcr_values, filtered_data, pcr_values,
                   difference_values, levels, vwap_value, csv_file, printed,
                   clock, iteration, rows_appended, ratio_history>>

\* lines 166-172: the first option chain and its expiry dates
StartFetchChain ==
    /\ pc = "start_chain"
    /\ \E resp \in ChainResponses :
        LET got == fetch_option_chain_data(resp)
        IN  /\ response' = resp
            /\ IF got.raised # NoException
               THEN Raise(got.raised) /\ UNCHANGED <<option_chain_data, expiry_dates>>
               ELSE /\ option_chain_data' = got.value
                    /\ UNCHANGED exception
                    /\ IF got.value = None
                       THEN pc' = "exited" /\ UNCHANGED expiry_dates
                       ELSE /\ expiry_dates' =
                                {got.value[i].expiryDate : i \in DOMAIN got.value}
                            /\ pc' = "prompt"
    /\ UNCHANGED <<nifty_data, current_price, expiry_date_input, ist_price,
                   old_vwap, prev_pcr_values, filtered_data, pcr_values,
                   difference_values, levels, vwap_value, csv_file, printed,
                   clock, iteration, rows_appended, ratio_history>>

\* lines 174-186 with the membership test of line 175 left out
PromptExpiryUnchecked ==
    /\ pc = "prompt"
    /\ \E typed \in ExpiryInputs : expiry_date_input' = typed
    /\ pc' = "loop"
    /\ ist_price' = nifty_data.data[1].lastPrice
    /\ old_vwap' = calculate_vwap(nifty_data)
    /\ UNCHANGED <<exception, nifty_data, option_chain_data, current_price,
                   expiry_dates, prev_pcr_values, filtered_data, pcr_values,
                   difference_values, levels, vwap_value, csv_file, printed,
                   response, clock, iteration, rows_appended, ratio_history>>

\* lines 174-186: the prompt, and the reference price and VWAP of the run
PromptExpiry ==
    /\ pc = "prompt"
    /\ \E typed \in ExpiryInputs : expiry_date_input' = typed
    /\ IF expiry_date_input' \notin expiry_dates
       THEN pc' = "exited" /\ UNCHANGED <<ist_price, old_vwap>>
       ELSE /\ pc' = "loop"
            /\ ist_price' = nifty_data.data[1].lastPrice
            /\ old_vwap' = calculate_vwap(nifty_data)
    /\ UNCHANGED <<exception, nifty_data, option_chain_data, current_price,
                   expiry_dates, prev_pcr_values, filtered_data, pcr_values,
                   difference_values, levels, vwap_value, csv_file, printed,
                   response, clock, iteration, rows_appended, ratio_history>>

\* lines 190-196 with a failed fetch ending the program as at startup
LoopFetchNiftyFatal ==
    /\ pc = "loop"
    /\ iteration < MaxIter
    /\ iteration' = iteration + 1
    /\ \E resp \in NiftyResponses :
        /\ response' = resp
        /\ nifty_data' = fetch_nifty_data(resp)
    /\ IF NoNiftyData(nifty_data')
       THEN pc' = "exited" /\ UNCHANGED <<exception, current_price>>
       ELSE IF "lastPrice" \notin DOMAIN nifty_data'.data[1]
       THEN Raise("KeyError") /\ UNCHANGED current_price
       ELSE /\ current_price' = nifty_data'.data[1].lastPrice
            /\ pc' = "fetch_chain"
            /\ UNCHANGED exception
    /\ UNCHANGED <<option_chain_data, expiry_dates, expiry_date_input, ist_price,
                   old_vwap, prev_pcr_values, filtered_data, pcr_values,
                   difference_values, levels, vwap_value, csv_file, printed,
                   clock, rows_appended, ratio_history>>

\* lines 190-196: the index snapshot of one pass of the loop
LoopFetchNifty ==
    /\ pc = "loop"
    /\ iteration < MaxIter
    /\ iteration' = iteration + 1
    /\ \E resp \in NiftyResponses :
        /\ response' = resp
        /\ nifty_data' = fetch_nifty_data(resp)
    /\ IF NoNiftyData(nifty_data')
       THEN pc' = "sleep" /\ UNCHANGED <<exception, current_price>>
       ELSE IF "lastPrice" \notin DOMAIN nifty_data'.data[1]
       THEN Raise("KeyError") /\ UNCHANGED current_price
       ELSE /\ current_price' = nifty_data'.data[1].lastPrice
            /\ pc' = "fetch_chain"
            /\ UNCHANGED exception
    /\ UNCHANGED <<option_chain_data, expiry_dates, expiry_date_input, ist_price,
                   old_vwap, prev_pcr_values, filtered_data, pcr_values,
                   difference_values, levels, vwap_value, csv_file, printed,
                   clock, rows_appended, ratio_history>>

\* lines 197-201: the option chain of one pass of the loop
LoopFetchChain ==
    /\ pc = "fetch_chain"
    /\ \E resp \in ChainResponses :
        LET got == fetch_option_chain_data(resp)
        IN  /\ response' = resp
            /\ IF got.raised # NoException
               THEN Raise(got.raised) /\ UNCHANGED option_chain_data
               ELSE /\ option_chain_data' = got.value
                    /\ UNCHANGED exception
                    /\ pc' = IF got.value = None THEN "sleep" ELSE "filter"
    /\ UNCHANGED <<nifty_data, current_price, expiry_dates, expiry_date_input,
                   ist_price, old_vwap, prev_pcr_values, filtered_data, pcr_values,
                   difference_values, levels, vwap_value, csv_file, printed,
                   clock, iteration, rows_appended, ratio_history>>

\* line 203
Filter ==
    /\ pc = "filter"
    /\ filtered_data' = filter_strike_prices(option_chain_data, current_price,
                                             strike_ranges, expiry_date_input)
    /\ pc' = "pcr"
    /\ UNCHANGED <<exception, nifty_data, option_chain_data, current_price,
                   expiry_dates, expiry_date_input, ist_price, old_vwap,
                   prev_pcr_values, pcr_values, difference_values, levels,
                   vwap_value, csv_file, printed, response, clock, iteration,
                   rows_appended, ratio_history>>

\* line 205
Pcr ==
    /\ pc = "pcr"
    /\ LET got == calculate_pcr(filtered_data)
       IN  IF \E j \in DOMAIN got.pcr_values :
                  got.pcr_values[j].value = ZeroDivisionError
           THEN Raise("ZeroDivisionError")
                /\ UNCHANGED <<pcr_values, difference_values>>
           ELSE /\ pcr_values' = got.pcr_values
                /\ difference_values' = got.difference_values
                /\ pc' = "levels"
                /\ UNCHANGED exception
    /\ UNCHANGED <<nifty_data, option_chain_data, current_price, expiry_dates,
                   expiry_date_input, ist_price, old_vwap, prev_pcr_values,
                   filtered_data, levels, vwap_value, csv_file, printed,
                   response, clock, iteration, rows_appended, ratio_history>>

\* line 207
SupportResistance ==
    /\ pc = "levels"
    /\ levels' = calculate_support_resistance(option_chain_data)
    /\ pc' = "vwap"
    /\ UNCHANGED <<exception, nifty_data, option_chain_data, current_price,
                   expiry_dates, expiry_date_input, ist_price, old_vwap,
                   prev_pcr_values, filtered_data, pcr_values, difference_values,
                   vwap_value, csv_file, printed, response, clock, iteration,
                   rows_appended, ratio_history>>

\* lines 209-216: None - float and float - None raise TypeError
Vwap ==
    /\ pc = "vwap"
    /\ LET vwapdiff == calculate_vwap(nifty_data)
       IN  IF old_vwap = None \/ vwapdiff = None
           THEN Raise("TypeError") /\ UNCHANGED vwap_value
           ELSE LET vwap == FracAdd(FracSub(old_vwap, vwapdiff), FracOfInt(ist_price))
                IN  /\ vwap_value' = IF vwap = None THEN NotAvailable ELSE vwap
                    /\ pc' = "print"
                    /\ UNCHANGED exception
    /\ UNCHANGED <<nifty_data, option_chain_data, current_price, expiry_dates,
                   expiry_date_input, ist_price, old_vwap, prev_pcr_values,
                   filtered_data, pcr_values, difference_values, levels, csv_file,
                   printed, response, clock, iteration, rows_appended,
                   ratio_history>>

\* line 221
PrintLatest ==
    /\ pc = "print"
    /\ printed' = print_latest_data(pcr_values, prev_pcr_values)
    /\ pc' = "append"
    /\ UNCHANGED <<exception, nifty_data, option_chain_data, current_price,
                   expiry_dates, expiry_date_input, ist_price, old_vwap,
                   prev_pcr_values, filtered_data, pcr_values, difference_values,
                   levels, vwap_value, csv_file, response, clock, iteration,
                   rows_appended, ratio_history>>

\* line 223: the row is written, or open/write raises IOError, which is caught
AppendRow ==
    /\ pc = "append"
    /\ \/ /\ csv_file' = append_to_csv(csv_file, pcr_values, difference_values,
                                       clock, levels, current_price, vwap_value)
          /\ rows_appended' =
                Append(rows_appended,
                       DataRow(pcr_values, difference_values, clock, levels,
                               current_price, vwap_value))
       \/ UNCHANGED <<csv_file, rows_appended>>
    /\ pc' = "remember"
    /\ UNCHANGED <<exception, nifty_data, option_chain_data, current_price,
                   expiry_dates, expiry_date_input, ist_price, old_vwap,
                   prev_pcr_values, filtered_data, pcr_values, difference_values,
                   levels, vwap_value, printed, response, clock, iteration,
                   ratio_history>>

\* line 225
Remember ==
    /\ pc = "remember"
    /\ prev_pcr_values' = pcr_values
    /\ ratio_history' = Append(ratio_history, pcr_values)
    /\ pc' = "sleep"
    /\ UNCHANGED <<exception, nifty_data, option_chain_data, current_price,
                   expiry_dates, expiry_date_input, ist_price, old_vwap,
                   filtered_data, pcr_values, difference_values, levels,
                   vwap_value, csv_file, printed, response, clock, iteration,
                   rows_appended>>

\* lines 193-194, 200-201 and 227: the delay, then the next pass
Sleep ==
    /\ pc = "sleep"
    /\ clock' = clock + SleepSeconds
    /\ pc' = "loop"
    /\ UNCHANGED <<exception, nifty_data, option_chain_data, current_price,
                   expiry_dates, expiry_date_input, ist_price, old_vwap,
                   prev_pcr_values, filtered_data, pcr_values, difference_values,
                   levels, vwap_value, csv_file, printed, response, iteration,
                   rows_appended, ratio_history>>

Next ==
    \/ StartFetchNifty
    \/ StartFetchChain
    \/ PromptExpiry
    \/ LoopFetchNifty
    \/ LoopFetchChain
    \/ Filter
    \/ Pcr
    \/ SupportResistance
    \/ Vwap
    \/ PrintLatest
    \/ AppendRow
    \/ Remember
    \/ Sleep

Spec == Init /\ [][Next]_vars

-----------------------------------------------------------------------------
(* The calculations of one pass, on every chain of the pool *)

InitCalc ==
    /\ pc = "filter"
    /\ option_chain_data \in Chains
    /\ current_price \in Prices
    /\ expiry_date_input \in Expiries
    /\ Unbound

NextCalc ==
    \/ Filter
    \/ Pcr
    \/ SupportResistance

SpecCalc == InitCalc /\ [][NextCalc]_vars

-----------------------------------------------------------------------------
(* Properties of the calculations *)

\* positions at which filtered_data belongs to the chain and price in hand
Filtered == {"pcr", "levels", "vwap", "print", "append", "remember"}

\* positions at which pcr_values belongs to filtered_data
RatiosValid == {"levels", "vwap", "print", "append", "remember"}

\* positions at which levels belongs to the chain in hand
LevelsValid == {"vwap", "print", "append", "remember"}

\* the entries of the chain inside the window of width w that carry the expiry
WindowOf(chain, price, w, expiry) ==
    SelectSeq(chain, LAMBDA e : /\ price - 50 * w <= e.strikePrice
                                /\ e.strikePrice <= price + 50 * w
                                /\ e.expiryDate = expiry)

\* C1: the subset filter_strike_prices returns for band width w holds exactly
\* the chain entries with price - 50*w <= strikePrice <= price + 50*w and the
\* target expiry: none outside the window or of another expiry, none left out
C1_FilterExact ==
    pc \in Filtered =>
        /\ DOMAIN filtered_data = DOMAIN strike_ranges
        /\ \A j \in DOMAIN filtered_data :
            /\ filtered_data[j].key = strike_ranges[j]
            /\ filtered_data[j].value =
                   WindowOf(option_chain_data, current_price,
                            strike_ranges[j], expiry_date_input)

\* a chain with an entry on the lower edge of band 1 (kept), an entry of the
\* target expiry outside band 1 (dropped) and an entry of another expiry
C1_Witness ==
    /\ pc = "pcr"
    /\ \E i \in DOMAIN option_chain_data :
        /\ option_chain_data[i].strikePrice = current_price - 50
        /\ option_chain_data[i].expiryDate = expiry_date_input
        /\ option_chain_data[i] \in Range(filtered_data[1].value)
    /\ \E i \in DOMAIN option_chain_data :
        /\ option_chain_data[i].strikePrice > current_price + 50
        /\ option_chain_data[i].expiryDate = expiry_date_input
        /\ option_chain_data[i] \notin Range(filtered_data[1].value)
        /\ option_chain_data[i] \in Range(filtered_data[NumBands].value)
    /\ \E i \in DOMAIN option_chain_data :
        /\ option_chain_data[i].strikePrice = current_price
        /\ option_chain_data[i].expiryDate # expiry_date_input

\* the sum of changeinOpenInterest over the entries of data that have the side
RECURSIVE SideSum(_, _, _)
SideSum(data, side, n) ==
    IF n = 0 THEN 0
    ELSE SideSum(data, side, n - 1)
         + (IF side \in DOMAIN data[n] THEN data[n][side].changeinOpenInterest ELSE 0)

PutSum(j) == SideSum(filtered_data[j].value, "PE", Len(filtered_data[j].value))

CallSum(j) == SideSum(filtered_data[j].value, "CE", Len(filtered_data[j].value))

\* C2: the ratio stored for a band is 0 when its call-sum is 0, whatever the
\* put-sum, and put-sum / call-sum otherwise, and no division by zero occurs
C2_RatioGuarded ==
    /\ exception # "ZeroDivisionError"
    /\ pc \in RatiosValid =>
        /\ DOMAIN pcr_values = DOMAIN filtered_data
        /\ \A j \in DOMAIN pcr_values :
            /\ pcr_values[j].key = Col("pcr", filtered_data[j].key)
            /\ CallSum(j) = 0 => pcr_values[j].value = <<0, 1>>
            /\ CallSum(j) # 0 =>
                /\ pcr_values[j].value[2] > 0
                /\ pcr_values[j].value[1] * CallSum(j)
                       = PutSum(j) * pcr_values[j].value[2]

\* one band with put-sum 5 over call-sum 0 (ratio 0) beside a band whose
\* call-sum is not 0 and whose ratio is not a whole number
C2_Witness ==
    /\ pc = "levels"
    /\ \E j \in DOMAIN pcr_values :
        PutSum(j) = 5 /\ CallSum(j) = 0 /\ pcr_values[j].value = <<0, 1>>
    /\ \E j \in DOMAIN pcr_values :
        /\ CallSum(j) # 0
        /\ pcr_values[j].value[2] # 1
        /\ pcr_values[j].value = TrueDiv(PutSum(j), CallSum(j))

\* the positions of the chain entries that have the side
Having(side) == {i \in DOMAIN option_chain_data : side \in DOMAIN option_chain_data[i]}

\* picks are the strikes of the (at most three) records of the side with the
\* highest open interest, highest first, and None beyond the records there are
TopThree(side, picks) ==
    LET k == IF Cardinality(Having(side)) < 3 THEN Cardinality(Having(side)) ELSE 3
        oi(i) == option_chain_data[i][side].openInterest
    IN  /\ \A n \in (k + 1)..3 : picks[n] = None
        /\ \E f \in [1..k -> Having(side)] :
            /\ \A a, b \in 1..k : a # b => f[a] # f[b]
            /\ \A n \in 1..k : picks[n] = <<option_chain_data[f[n]][side].strikePrice>>
            /\ \A n \in 1..(k - 1) : oi(f[n]) >= oi(f[n + 1])
            /\ \A i \in Having(side) \ {f[n] : n \in 1..k} : oi(i) <= oi(f[k])

\* C3: (s1,s2,s3) are the strikes of the three put-side records of the full
\* chain with the highest open interest, in descending order of open interest,
\* (r1,r2,r3) the same for the call side, and a side with k < 3 records has
\* None at ranks k+1..3, the empty chain included
C3_TopThree ==
    pc \in LevelsValid =>
        /\ TopThree("PE", <<levels.s1, levels.s2, levels.s3>>)
        /\ TopThree("CE", <<levels.r1, levels.r2, levels.r3>>)

\* four put records that do not arrive in descending order of open interest,
\* and a call side of one or two records
C3_Witness ==
    /\ pc = "vwap"
    /\ Cardinality(Having("PE")) = 4
    /\ \E a, b \in Having("PE") :
        /\ a < b
        /\ option_chain_data[a].PE.openInterest < option_chain_data[b].PE.openInterest
    /\ \E a, b \in Having("PE") :
        option_chain_data[a].PE.openInterest > option_chain_data[b].PE.openInterest
           /\ <<option_chain_data[b].PE.strikePrice>> \notin {levels.s1, levels.s2, levels.s3}
    /\ levels.s3 # None
    /\ levels.r1 # None
    /\ levels.r3 = None

-----------------------------------------------------------------------------
(* Properties of the poll loop *)

\* Timestamp, pcr1..pcr30, difference1..difference30, s1, s2, s3, r1, r2, r3,
\* Price, VWAP
ConfiguredHeader ==
    <<Col("Timestamp", 0)>>
    \o [x \in 1..30 |-> Col("pcr", x)]
    \o [x \in 1..30 |-> Col("difference", x)]
    \o <<Col("s", 1), Col("s", 2), Col("s", 3), Col("r", 1), Col("r", 2), Col("r", 3),
         Col("Price", 0), Col("VWAP", 0)>>

\* C4: from a new file, after n >= 1 successful appends the file is one header
\* row followed by the n data rows in call order; the header is not written
\* again and rows already written are never changed
C4_HeaderOnce ==
    /\ [](rows_appended = <<>> => csv_file = <<>>)
    /\ [](rows_appended # <<>> => csv_file = <<ConfiguredHeader>> \o rows_appended)
    /\ [][/\ Len(csv_file') >= Len(csv_file)
          /\ \A i \in DOMAIN csv_file : csv_file'[i] = csv_file[i]]_vars

\* two rows appended in two passes, after a pass whose append failed
C4_Witness ==
    /\ pc = "remember"
    /\ Len(rows_appended) = 2
    /\ Len(csv_file) = 3
    /\ Len(ratio_history) = 2
    /\ rows_appended[1] # rows_appended[2]

\* the index document lacks 'data', has an empty 'data' list or lacks 'lastPrice'
MalformedIndex(resp) ==
    /\ "json" \in DOMAIN resp
    /\ \/ "data" \notin DOMAIN resp.json
       \/ Len(resp.json.data) = 0
       \/ "lastPrice" \notin DOMAIN resp.json.data[1]

\* the option-chain document lacks 'records' or 'data' or has an empty collection
MalformedChain(resp) ==
    /\ "json" \in DOMAIN resp
    /\ \/ "records" \notin DOMAIN resp.json
       \/ "data" \notin DOMAIN resp.json.records
       \/ Len(resp.json.records.data) = 0

\* the pass is given up: nothing raised, nothing written, on to the delay
Skipped ==
    /\ pc' = "sleep"
    /\ exception' = NoException
    /\ csv_file' = csv_file
    /\ prev_pcr_values' = prev_pcr_values

\* C5: in the poll loop a malformed or empty upstream response is treated as a
\* fetch failure: the pass is skipped, with no row appended and no exception,
\* and the loop goes on after the delay
C5_MalformedSkipped ==
    [][/\ (pc = "loop" /\ MalformedIndex(response')) => Skipped
       /\ (pc = "fetch_chain" /\ MalformedChain(response')) => Skipped]_vars

\* C6: a pass of the loop whose index or option-chain fetch fails with a
\* network/HTTP error gets None instead of an exception, appends no row, leaves
\* the remembered ratios alone, and is followed by the delay and a further pass
C6_FetchFailureSkips ==
    [][/\ (pc = "loop" /\ "error" \in DOMAIN response') =>
              (nifty_data' = None /\ Skipped)
       /\ (pc = "fetch_chain" /\ "error" \in DOMAIN response') =>
              (option_chain_data' = None /\ Skipped)
       /\ pc = "sleep" =>
              /\ pc' = "loop"
              /\ clock' = clock + 30
              /\ exception' = NoException
              /\ csv_file' = csv_file
              /\ prev_pcr_values' = prev_pcr_values]_vars

\* a pass skipped for a failed fetch, after a pass that wrote a row
C6_Witness ==
    /\ pc = "sleep"
    /\ "error" \in DOMAIN response
    /\ nifty_data = None
    /\ rows_appended # <<>>
    /\ prev_pcr_values # None

\* the positions inside the while loop
InLoop == {"loop", "fetch_chain", "filter", "pcr", "levels", "vwap", "print",
           "append", "remember", "sleep"}

\* C7: a failed initial index fetch, a failed initial option-chain fetch or a
\* typed expiry outside the fetched expiry dates ends the program before the
\* poll loop; a row is only written when the expiry is one of those dates
C7_StartupFatal ==
    /\ [](pc \in InLoop => expiry_date_input \in expiry_dates)
    /\ [](csv_file # <<>> => expiry_date_input \in expiry_dates)
    /\ [][/\ (pc = "start" /\ "error" \in DOMAIN response') => pc' = "exited"
          /\ (pc = "start_chain" /\ "error" \in DOMAIN response') => pc' = "exited"
          /\ (pc = "prompt" /\ expiry_date_input' \notin expiry_dates) => pc' = "exited"
          /\ pc # "exited"]_vars

\* the program has ended at the prompt on an expiry that is not in the list
C7_Witness ==
    /\ pc = "exited"
    /\ expiry_dates # {}
    /\ expiry_date_input # ""
    /\ expiry_date_input \notin expiry_dates
    /\ csv_file = <<>>

\* the snapshot reports a traded volume of zero
ZeroVolume(nifty) ==
    /\ nifty # None
    /\ "data" \in DOMAIN nifty
    /\ Len(nifty.data) > 0
    /\ "totalTradedVolume" \in DOMAIN nifty.data[1]
    /\ nifty.data[1].totalTradedVolume = 0

\* C8: calculate_vwap is None for a zero volume and value / volume otherwise;
\* a pass of the loop whose snapshot (or whose startup snapshot) has zero
\* traded volume records VWAP as "N/A", completes and lets the loop continue
C8_ZeroVolumeTolerated ==
    /\ [](ZeroVolume(nifty_data) => calculate_vwap(nifty_data) = None)
    /\ [][(pc = "vwap" /\ (ZeroVolume(nifty_data) \/ old_vwap = None)) =>
              (pc' = "print" /\ exception' = NoException
               /\ vwap_value' = NotAvailable)]_vars

\* change is the ratio cur minus the ratio before
IsDifference(change, cur, before) ==
    /\ change # None
    /\ change[2] > 0
    /\ change[1] * cur[2] * before[2]
           = change[2] * (cur[1] * before[2] - before[1] * cur[2])

\* C9: the first completed pass prints no delta; every later one prints, for
\* each band, its ratio minus the same band's ratio of the preceding completed
\* pass; the remembered ratios are replaced once per completed pass, after the
\* row is printed and appended, and by nothing else
C9_Deltas ==
    /\ [](pc \in {"append", "remember"} =>
            /\ DOMAIN printed = DOMAIN pcr_values
            /\ \A j \in DOMAIN printed :
                /\ printed[j].key = pcr_values[j].key
                /\ ratio_history = <<>> => printed[j].change = None
                /\ ratio_history # <<>> =>
                    /\ ratio_history[Len(ratio_history)][j].key = printed[j].key
                    /\ IsDifference(printed[j].change, pcr_values[j].value,
                                    ratio_history[Len(ratio_history)][j].value))
    /\ [](prev_pcr_values = IF ratio_history = <<>> THEN None
                            ELSE ratio_history[Len(ratio_history)])
    /\ [][/\ pc = "remember" =>
              (prev_pcr_values' = pcr_values
               /\ Len(ratio_history') = Len(ratio_history) + 1)
          /\ pc # "remember" =>
              (prev_pcr_values' = prev_pcr_values /\ ratio_history' = ratio_history)]_vars

\* a later pass that prints a change other than zero for some band
C9_Witness ==
    /\ pc = "append"
    /\ Len(ratio_history) = 2
    /\ \E j \in DOMAIN printed :
        printed[j].change # None /\ printed[j].change[1] # 0
    /\ \E j \in DOMAIN printed :
        printed[j].change # None /\ printed[j].change[1] # 0 /\ printed[j].change[2] # 1

\* C10: on the header append_to_csv writes for the 30 configured bands, the
\* chart's selection columns[31:-6] is difference1..difference30 and no other
\* column
C10_DifferenceColumns ==
    csv_file # <<>> =>
        /\ csv_file[1] = ConfiguredHeader
        /\ difference_columns(csv_file[1]) = [x \in 1..30 |-> Col("difference", x)]

=============================================================================
